---- MODULE Spec2Model ----
(***************************************************************************)
(* Model of codeanalyzer.py: the syntax-tree visitor CallGraphAnalyzer,    *)
(* analyze_file, generate_call_graph (merge, assembly, cleanup) and main.  *)
(***************************************************************************)
EXTENDS Integers, Sequences, FiniteSets, TLC

\* ------------------------------------------------------------------ bounds
MaxFiles == 3
MaxBody == 3

\* ------------------------------------------------------- Python's None
None == "None"
\* a local variable that is not bound yet, and a raised exception
Unset == [kind |-> "unset"]
Raised == [kind |-> "Exception"]

\* ------------------------------------------------------------ AST nodes
\* (the node classes of the ast module, with the fields a visitor iterates)
Name(id) == [kind |-> "Name", id |-> id]
Attribute(value, attr) == [kind |-> "Attribute", value |-> value, attr |-> attr]
Lambda == [kind |-> "Lambda"]
Call(func, args) == [kind |-> "Call", func |-> func, args |-> args]
Expr(value) == [kind |-> "Expr", value |-> value]
If(test, body) == [kind |-> "If", test |-> test, body |-> body]
ClassDef(name, body) == [kind |-> "ClassDef", name |-> name, body |-> body]
FunctionDef(name, args, body, decorator_list, returns) ==
    [kind |-> "FunctionDef", name |-> name, lineno |-> 0, args |-> args,
     body |-> body, decorator_list |-> decorator_list, returns |-> returns]
AsyncFunctionDef(name, args, body, decorator_list, returns) ==
    [kind |-> "AsyncFunctionDef", name |-> name, lineno |-> 0, args |-> args,
     body |-> body, decorator_list |-> decorator_list, returns |-> returns]
Module(body) == [kind |-> "Module", body |-> body]
\* an expression nested deeper than the interpreter's recursion limit allows
\* a visitor to descend (ast.parse accepts it, NodeVisitor.visit raises)
TooDeep == [kind |-> "TooDeep"]

DefKinds == {"FunctionDef", "AsyncFunctionDef"}

\* ast.parse gives every definition the line of its "def": one statement per
\* line, decorators on the lines before the def, the body on the lines after.
RECURSIVE Lines(_, _)
Lines(stmts, l) ==
    IF stmts = <<>> THEN [stmts |-> <<>>, next |-> l]
    ELSE LET s == Head(stmts)
             first ==
                 IF s.kind \in DefKinds
                 THEN LET dl == l + Len(s.decorator_list)
                          inner == Lines(s.body, dl + 1)
                      IN  [stmt |-> [s EXCEPT !.lineno = dl, !.body = inner.stmts],
                           next |-> inner.next]
                 ELSE IF s.kind \in {"ClassDef", "If"}
                 THEN LET inner == Lines(s.body, l + 1)
                      IN  [stmt |-> [s EXCEPT !.body = inner.stmts],
                           next |-> inner.next]
                 ELSE [stmt |-> s, next |-> l + 1]
             rest == Lines(Tail(stmts), first.next)
         IN  [stmts |-> <<first.stmt>> \o rest.stmts, next |-> rest.next]

\* ast.parse(content): the module node of a source text (its statements)
Parse(content) == Module(Lines(content, 1).stmts)

\* ast.NodeVisitor.generic_visit: the child nodes, in the order of _fields
\* (FunctionDef: args, body, decorator_list, returns; Call: func, args)
Children(node) ==
    CASE node.kind = "Module" -> node.body
      [] node.kind \in DefKinds ->
             node.args \o node.body \o node.decorator_list \o node.returns
      [] node.kind = "ClassDef" -> node.body
      [] node.kind = "If" -> <<node.test>> \o node.body
      [] node.kind = "Expr" -> <<node.value>>
      [] node.kind = "Call" -> <<node.func>> \o node.args
      [] node.kind = "Attribute" -> <<node.value>>
      [] OTHER -> <<>>

\* (mutant) a member access resolved to its receiver instead of its attribute
GetCallNameReceiver(node) ==
    IF node.func.kind = "Name" THEN node.func.id
    ELSE IF node.func.kind = "Attribute" /\ node.func.value.kind = "Name"
    THEN node.func.value.id
    ELSE None

\* CallGraphAnalyzer._get_call_name
GetCallName(node) ==
    IF node.func.kind = "Name" THEN node.func.id
    ELSE IF node.func.kind = "Attribute" THEN node.func.attr
    ELSE None

\* os.path.basename of a path given by its components
Basename(path) == path[Len(path)]

\* --------------------------------------------- dicts (insertion ordered)
\* A dict of function records is the sequence of its values in key order.
HasKey(d, k) == \E i \in DOMAIN d : d[i].name = k
KeyIndex(d, k) == CHOOSE i \in DOMAIN d : d[i].name = k
Keys(d) == {d[i].name : i \in DOMAIN d}
Get(d, k) == d[KeyIndex(d, k)]

\* (mutant) setdefault: the first record of a name is kept
DictSetKeepFirst(d, rec) ==
    IF HasKey(d, rec.name) THEN d ELSE Append(d, rec)

\* d[rec.name] = rec : a new key goes last, an old key keeps its place
DictSet(d, rec) ==
    IF HasKey(d, rec.name) THEN [d EXCEPT ![KeyIndex(d, rec.name)] = rec]
    ELSE Append(d, rec)

\* (mutant) the records collected in a list: extend instead of update
DictUpdateExtend(d, e) == d \o e

\* d.update(e)
RECURSIVE DictUpdate(_, _)
DictUpdate(d, e) ==
    IF e = <<>> THEN d ELSE DictUpdate(DictSet(d, Head(e)), Tail(e))

\* d[k]['calls'].append(c)
AppendCall(d, k, c) ==
    [d EXCEPT ![KeyIndex(d, k)].calls = Append(@, c)]

\* the record visit_FunctionDef stores
NewRecord(node, file_path) ==
    [name |-> node.name, file |-> Basename(file_path),
     line |-> node.lineno, calls |-> <<>>]

\* the loops that build call_relationships
RECURSIVE RelationshipsOf(_, _)
RelationshipsOf(func_info, calls) ==
    IF calls = <<>> THEN <<>>
    ELSE <<[caller |-> func_info.name, callee |-> Head(calls),
            caller_file |-> func_info.file]>>
         \o RelationshipsOf(func_info, Tail(calls))

RECURSIVE CallRelationships(_)
\* (mutant) the registry iterated from its last function to its first
CallRelationshipsReversed(d) ==
    IF d = <<>> THEN <<>>
    ELSE CallRelationships(Tail(d)) \o RelationshipsOf(Head(d), Head(d).calls)

CallRelationships(d) ==
    IF d = <<>> THEN <<>>
    ELSE RelationshipsOf(Head(d), Head(d).calls) \o CallRelationships(Tail(d))

\* the report generate_call_graph assembles
CallGraph(repo_url, d) ==
    [repository |-> repo_url, total_functions |-> Len(d), functions |-> d,
     call_relationships |-> CallRelationships(d)]

\* ------------------------------------------------------------- inputs
SeqsUpTo(S, n) == UNION {[1..k -> S] : k \in 0..n}

RepoUrl == "https://example.org/repo.git"

\* names the locator looks at
HiddenDirs == {".git"}
PyNames == {"a.py", "b.py"}

\* the path of the i-th Python file of the working tree, in os.walk order:
\* a.py, b.py, pkg/a.py, pkg/b.py, pkg/pkg/a.py, ...
PathOf(i) ==
    [j \in 1..((i - 1) \div 2) |-> "pkg"]
        \o <<IF i % 2 = 1 THEN "a.py" ELSE "b.py">>

CallName(n) == Call(Name(n), <<>>)
CallAttr == Call(Attribute(Name("c"), "d"), <<>>)
\* w()(z(c.d())): the target is itself a call
CallNested == Call(CallName("w"), <<Call(Name("z"), <<CallAttr>>)>>)
CallLambda == Call(Lambda, <<>>)

PlainDef(name, body) == FunctionDef(name, <<>>, body, <<>>, <<>>)
\* @deco() def name(p=dflt()) -> ret(): body
FullDef(name, body) ==
    FunctionDef(name, <<CallName("dflt")>>, body, <<CallName("deco")>>,
                <<CallName("ret")>>)
PlainAsync(name, body) == AsyncFunctionDef(name, <<>>, body, <<>>, <<>>)

S(c) == Expr(c)

\* source texts of the repository runs
Contents ==
    { <<PlainDef("foo", <<S(CallName("bar"))>>)>>,
      <<PlainDef("bar", <<>>), PlainDef("foo", <<>>)>>,
      <<PlainDef("foo", <<S(CallName("x"))>>),
        PlainDef("foo", <<S(CallAttr), S(CallName("y"))>>)>>,
      <<S(CallName("x"))>>,
      <<PlainDef("a", <<S(CallName("b")), S(CallAttr), S(CallLambda)>>),
        PlainAsync("baz", <<S(CallName("y"))>>)>> }

\* a file: its path is given by its place; fault is what analyze_file hits
File(content, fault) == [content |-> content, fault |-> fault]
Files ==
    {File(c, "none") : c \in Contents}
    \cup {File(<<>>, "read"), File(<<>>, "parse")}
    \cup {File(<<PlainDef("foo", <<S(CallName("x"))>>),
                 PlainDef("qux", <<S(TooDeep)>>)>>, "none")}

\* statements of a function body in the single-file runs
Leaf == {S(CallName("x")), S(CallName("z")), S(CallAttr), S(CallNested)}
Inner ==
    {PlainDef(n, <<S(CallName("y"))>>) : n \in {"foo", "bar"}}
    \cup {PlainDef("bar", <<>>),
          PlainAsync("bar", <<S(CallName("y"))>>),
          If(Name("t"), <<PlainDef("bar", <<S(CallName("y"))>>)>>),
          ClassDef("K", <<PlainDef("foo", <<S(CallAttr)>>)>>)}
Bodies == SeqsUpTo(Leaf \cup Inner, MaxBody)
Outer ==
    {PlainDef("foo", b) : b \in Bodies}
    \cup {FullDef("foo", b) : b \in Bodies}
    \cup {PlainAsync("foo", <<s>>) : s \in Leaf \cup Inner}

Repos == {f \in SeqsUpTo(Files, MaxFiles) : Len(f) >= 1}
VisitRepos == {<<File(<<o>>, "none")>> : o \in Outer} \cup {<<f>> : f \in Files}

\* ------------------------------------------------------------- state
VARIABLES
    pc,                \* position in main / generate_call_graph / analyze_file
    repo,              \* the cloned working tree: its files in walk order
    python_files,      \* generate_call_graph: python_files
    idx,               \* number of files the loop at line 112 has finished
    todo,              \* the pending visits of analyzer.visit(tree)
    current_function,  \* analyzer.current_function
    functions,         \* analyzer.functions
    all_functions,     \* generate_call_graph: all_functions
    call_graph,        \* generate_call_graph: call_graph
    dir_exists,        \* os.path.exists(project_path)
    rmtree_calls,      \* number of calls of shutil.rmtree
    pending,           \* paths rmtree has still to remove
    failed,            \* number of "Failed to delete" lines printed
    errors,            \* exceptions caught by analyze_file, one per failed file
    result             \* what generate_call_graph handed to main

vars == <<pc, repo, python_files, idx, todo, current_function, functions,
          all_functions, call_graph, dir_exists, rmtree_calls, pending,
          failed, errors, result>>

analysis == <<todo, current_function, functions>>
cleanup == <<dir_exists, rmtree_calls, pending, failed>>

\* a working tree: a non-source file, the Python files, a hidden directory
Entry(path, file) == [path |-> path, content |-> file.content, fault |-> file.fault]
WorkingTree(files) ==
    <<Entry(<<"README.md">>, File(<<>>, "none"))>>
    \o [i \in 1..Len(files) |-> Entry(PathOf(i), files[i])]
    \o <<Entry(<<".git", "a.py">>, File(<<>>, "none"))>>

InitWith(R) ==
    /\ pc = "clone"
    /\ repo \in {WorkingTree(f) : f \in R}
    /\ python_files = <<>>
    /\ idx = 0
    /\ todo = <<>>
    /\ current_function = None
    /\ functions = <<>>
    /\ all_functions = <<>>
    /\ call_graph = Unset
    /\ dir_exists = FALSE
    /\ rmtree_calls = 0
    /\ pending = 0
    /\ failed = 0
    /\ errors = <<>>
    /\ result = Unset

Init == InitWith(Repos)
InitVisit == InitWith(VisitRepos)

\* ---------------------------------------------------------- the locator
RECURSIVE SelectSeq2(_)
SelectSeq2(s) ==
    IF s = <<>> THEN <<>>
    ELSE LET e == Head(s)
             dirs == SubSeq(e.path, 1, Len(e.path) - 1)
             keep == /\ \A j \in DOMAIN dirs : dirs[j] \notin HiddenDirs
                     /\ Basename(e.path) \in PyNames
         IN  (IF keep THEN <<e>> ELSE <<>>) \o SelectSeq2(Tail(s))

\* find_python_files(directory)
FindPythonFiles(tree) == SelectSeq2(tree)

\* ------------------------------------------------------------- actions
\* clone_repo succeeds; find_python_files lists the files
CloneOk ==
    /\ pc = "clone"
    /\ dir_exists' = TRUE
    /\ python_files' = FindPythonFiles(repo)
    /\ pc' = "loop"
    /\ UNCHANGED <<repo, idx, analysis, all_functions, call_graph,
                   rmtree_calls, pending, failed, errors, result>>

\* clone_repo raises: main prints the error and exits with status 1
CloneFail ==
    /\ pc = "clone"
    /\ dir_exists' = TRUE
    /\ result' = Raised
    /\ pc' = "exit1"
    /\ UNCHANGED <<repo, python_files, idx, analysis, all_functions,
                   call_graph, rmtree_calls, pending, failed, errors>>

CurFile == python_files[idx + 1]

\* (mutant) the except clause hands back what the analyzer had collected
CaughtPartial(e) ==
    /\ errors' = Append(errors, e)
    /\ all_functions' = DictUpdate(all_functions, functions)
    /\ idx' = idx + 1
    /\ pc' = "loop"

\* the except clause of analyze_file: return {}; all_functions.update({})
Caught(e) ==
    /\ errors' = Append(errors, e)
    /\ all_functions' = DictUpdate(all_functions, <<>>)
    /\ idx' = idx + 1
    /\ pc' = "loop"

\* analyze_file: open/read fails
ReadFail ==
    /\ pc = "loop" /\ idx < Len(python_files)
    /\ CurFile.fault = "read"
    /\ Caught("OSError")
    /\ UNCHANGED <<repo, python_files, analysis, call_graph, cleanup, result>>

\* analyze_file: ast.parse fails
ParseFail ==
    /\ pc = "loop" /\ idx < Len(python_files)
    /\ CurFile.fault = "parse"
    /\ Caught("SyntaxError")
    /\ UNCHANGED <<repo, python_files, analysis, call_graph, cleanup, result>>

Visit(node) == [op |-> "visit", node |-> node]
Leave == [op |-> "leave", node |-> None]
VisitAll(nodes) == [i \in DOMAIN nodes |-> Visit(nodes[i])]

\* analyze_file: the file is read and parsed, the analyzer is constructed
\* and analyzer.visit(tree) is entered
ParseOk ==
    /\ pc = "loop" /\ idx < Len(python_files)
    /\ CurFile.fault = "none"
    /\ functions' = <<>>
    /\ current_function' = None
    /\ todo' = <<Visit(Parse(CurFile.content))>>
    /\ pc' = "visit"
    /\ UNCHANGED <<repo, python_files, idx, all_functions, call_graph,
                   cleanup, errors, result>>

Top == Head(todo)
Visiting(kinds) ==
    /\ pc = "visit" /\ todo # <<>>
    /\ Top.op = "visit" /\ Top.node.kind \in kinds

\* (mutant) the definition becomes active without being recorded
VisitFunctionDefUnrecorded ==
    /\ Visiting({"FunctionDef"})
    /\ current_function' = Top.node.name
    /\ todo' = VisitAll(Children(Top.node)) \o <<Leave>> \o Tail(todo)
    /\ UNCHANGED <<pc, repo, python_files, idx, functions, all_functions,
                   call_graph, cleanup, errors, result>>

\* visit_FunctionDef up to the recursion of generic_visit
VisitFunctionDef ==
    /\ Visiting({"FunctionDef"})
    /\ functions' = DictSet(functions, NewRecord(Top.node, CurFile.path))
    /\ current_function' = Top.node.name
    /\ todo' = VisitAll(Children(Top.node)) \o <<Leave>> \o Tail(todo)
    /\ UNCHANGED <<pc, repo, python_files, idx, all_functions, call_graph,
                   cleanup, errors, result>>

\* (mutant) the active function is not reset on the way out
LeaveFunctionDefNoReset ==
    /\ pc = "visit" /\ todo # <<>> /\ Top.op = "leave"
    /\ todo' = Tail(todo)
    /\ UNCHANGED <<pc, repo, python_files, idx, current_function, functions,
                   all_functions, call_graph, cleanup, errors, result>>

\* visit_FunctionDef after generic_visit has returned
LeaveFunctionDef ==
    /\ pc = "visit" /\ todo # <<>> /\ Top.op = "leave"
    /\ current_function' = None
    /\ todo' = Tail(todo)
    /\ UNCHANGED <<pc, repo, python_files, idx, functions, all_functions,
                   call_graph, cleanup, errors, result>>

\* visit_Call
VisitCall ==
    /\ Visiting({"Call"})
    /\ LET called_func == GetCallName(Top.node)
       IN  IF current_function # None /\ called_func # None
           THEN IF HasKey(functions, current_function)
                THEN /\ functions' =
                            AppendCall(functions, current_function, called_func)
                     /\ todo' = VisitAll(Children(Top.node)) \o Tail(todo)
                     /\ UNCHANGED <<pc, idx, all_functions, errors>>
                ELSE /\ Caught("KeyError")
                     /\ UNCHANGED <<functions, todo>>
           ELSE /\ todo' = VisitAll(Children(Top.node)) \o Tail(todo)
                /\ UNCHANGED <<pc, idx, all_functions, errors, functions>>
    /\ UNCHANGED <<repo, python_files, current_function, call_graph, cleanup,
                   result>>

\* generic_visit of a node no visit_ method handles
GenericVisit ==
    /\ pc = "visit" /\ todo # <<>> /\ Top.op = "visit"
    /\ Top.node.kind \notin {"FunctionDef", "Call", "TooDeep"}
    /\ todo' = VisitAll(Children(Top.node)) \o Tail(todo)
    /\ UNCHANGED <<pc, repo, python_files, idx, current_function, functions,
                   all_functions, call_graph, cleanup, errors, result>>

\* analyzer.visit exceeds the recursion limit: RecursionError
VisitRaise ==
    /\ Visiting({"TooDeep"})
    /\ Caught("RecursionError")
    /\ UNCHANGED <<repo, python_files, analysis, call_graph, cleanup, result>>

\* analyze_file returns analyzer.functions; all_functions.update(functions)
AnalyzeReturn ==
    /\ pc = "visit" /\ todo = <<>>
    /\ all_functions' = DictUpdate(all_functions, functions)
    /\ idx' = idx + 1
    /\ pc' = "loop"
    /\ UNCHANGED <<repo, python_files, analysis, call_graph, cleanup, errors,
                   result>>

\* lines 118-134: the report is assembled
Assemble ==
    /\ pc = "loop" /\ idx = Len(python_files)
    /\ call_graph' = CallGraph(RepoUrl, all_functions)
    /\ pc' = "finally"
    /\ UNCHANGED <<repo, python_files, idx, analysis, all_functions, cleanup,
                   errors, result>>

\* the finally clause: shutil.rmtree is entered if the directory exists
Finally ==
    /\ pc = "finally"
    /\ IF dir_exists
       THEN /\ rmtree_calls' = rmtree_calls + 1
            /\ pending' = Len(repo) + 1
            /\ pc' = "rmtree"
       ELSE /\ pc' = "return"
            /\ UNCHANGED <<rmtree_calls, pending>>
    /\ UNCHANGED <<repo, python_files, idx, analysis, all_functions,
                   call_graph, dir_exists, failed, errors, result>>

\* (mutant) remove_readonly without its try/except: a failed retry escapes
\* rmtree and the finally clause, and main exits with status 1
RmtreePathRaises ==
    /\ pc = "rmtree" /\ pending > 0
    /\ \E outcome \in {"ok", "readonly", "stuck"} :
          /\ (pending = 1 /\ failed > 0) => outcome = "stuck"
          /\ IF outcome = "stuck"
             THEN pc' = "exit1" /\ result' = Raised
             ELSE UNCHANGED <<pc, result>>
    /\ pending' = pending - 1
    /\ UNCHANGED <<repo, python_files, idx, analysis, all_functions,
                   call_graph, dir_exists, rmtree_calls, failed, errors>>

\* rmtree removes one path.  "ok": removed; "readonly": the removal fails,
\* remove_readonly clears the permissions and its retry removes the path;
\* "stuck": the retry fails too and remove_readonly prints the failure.
\* The directory itself (the last path) cannot go while a child is left.
RmtreePath ==
    /\ pc = "rmtree" /\ pending > 0
    /\ \E outcome \in {"ok", "readonly", "stuck"} :
          /\ (pending = 1 /\ failed > 0) => outcome = "stuck"
          /\ failed' = IF outcome = "stuck" THEN failed + 1 ELSE failed
    /\ pending' = pending - 1
    /\ UNCHANGED <<pc, repo, python_files, idx, analysis, all_functions,
                   call_graph, dir_exists, rmtree_calls, errors, result>>

\* rmtree returns; the finally clause ends and the report is returned
Return ==
    /\ pc \in {"rmtree", "return"}
    /\ pc = "rmtree" => pending = 0
    /\ dir_exists' = IF pc = "rmtree" THEN failed > 0 ELSE dir_exists
    /\ result' = call_graph
    /\ pc' = "returned"
    /\ UNCHANGED <<repo, python_files, idx, analysis, all_functions,
                   call_graph, rmtree_calls, pending, failed, errors>>

\* main writes call_graph.json and prints the summary
MainDone ==
    /\ pc = "returned"
    /\ pc' = "exit0"
    /\ UNCHANGED <<repo, python_files, idx, analysis, all_functions,
                   call_graph, cleanup, errors, result>>

Next ==
    \/ CloneOk
    \/ CloneFail
    \/ ReadFail
    \/ ParseFail
    \/ ParseOk
    \/ VisitFunctionDef
    \/ LeaveFunctionDef
    \/ VisitCall
    \/ GenericVisit
    \/ VisitRaise
    \/ AnalyzeReturn
    \/ Assemble
    \/ Finally
    \/ RmtreePath
    \/ Return
    \/ MainDone

Spec == Init /\ [][Next]_vars
SpecVisit == InitVisit /\ [][Next]_vars

\* --------------------------------------------- reading a syntax tree
\* the nodes of a tree in depth-first pre-order
RECURSIVE Preorder(_)
RECURSIVE PreorderAll(_)
Preorder(node) == <<node>> \o PreorderAll(Children(node))
PreorderAll(nodes) ==
    IF nodes = <<>> THEN <<>>
    ELSE Preorder(Head(nodes)) \o PreorderAll(Tail(nodes))

IsFunctionDef(n) == n.kind = "FunctionDef"
IsAnyDef(n) == n.kind \in DefKinds
IsTooDeep(n) == n.kind = "TooDeep"
IsCall(n) == n.kind = "Call"

\* a call whose target is a bare name or a member access, and its callee
Resolvable(n) == n.kind = "Call" /\ n.func.kind \in {"Name", "Attribute"}
Callee(n) == IF n.func.kind = "Name" THEN n.func.id ELSE n.func.attr
CalleesIn(nodes) ==
    LET c == SelectSeq(nodes, Resolvable) IN [i \in DOMAIN c |-> Callee(c[i])]

\* the nodes before the first one of the given kind
Before(nodes, kind) ==
    LET hits == {i \in DOMAIN nodes : nodes[i].kind = kind}
        first == IF hits = {} THEN Len(nodes) + 1
                 ELSE CHOOSE i \in hits : \A j \in hits : i <= j
    IN  SubSeq(nodes, 1, first - 1)

\* the calls visited while a definition is the active function: the calls
\* below it, in pre-order, up to the first definition nested in it
OwnCalls(def) == CalleesIn(Before(Tail(Preorder(def)), "FunctionDef"))
\* the calls in the body statements of a definition
BodyCalls(def) == CalleesIn(PreorderAll(def.body))

Range(f) == {f[i] : i \in DOMAIN f}
NamesOf(defs) == [i \in DOMAIN defs |-> defs[i].node.name]
LastNamed(defs, k) ==
    defs[CHOOSE i \in DOMAIN defs :
            /\ defs[i].node.name = k
            /\ \A j \in DOMAIN defs : defs[j].node.name = k => j <= i]

TreeOf(i) == Parse(python_files[i].content)
\* the tree being visited, once it has been visited to its end
Visited == pc = "visit" /\ todo = <<>>
CurTree == Parse(CurFile.content)
DefsOf(tree) ==
    LET d == SelectSeq(Preorder(tree), IsFunctionDef)
    IN  [i \in DOMAIN d |-> [file |-> idx + 1, node |-> d[i]]]

\* a file analyze_file gets through: read, parsed and visited to the end
Analysed(i) ==
    /\ python_files[i].fault = "none"
    /\ \A n \in Range(Preorder(TreeOf(i))) : ~IsTooDeep(n)
\* a file whose definitions are visited at all
Parsed(i) == python_files[i].fault = "none"

\* the definitions visited in the i-th file: all of them, or none when
\* the file cannot be read or parsed, or those before the visit raises
VisitedIn(i) ==
    IF Parsed(i)
    THEN LET d == SelectSeq(Before(Preorder(TreeOf(i)), "TooDeep"), IsFunctionDef)
         IN  [j \in DOMAIN d |-> [file |-> i, node |-> d[j]]]
    ELSE <<>>

\* the definitions of the first n files, in the order of the visit (the
\* files in locator order, a file's definitions in pre-order): those of the
\* files analyze_file gets through, and those visited in any file
RECURSIVE AnalysedDefs(_)
AnalysedDefs(n) ==
    IF n = 0 THEN <<>>
    ELSE AnalysedDefs(n - 1) \o (IF Analysed(n) THEN VisitedIn(n) ELSE <<>>)

RECURSIVE VisitedDefs(_)
VisitedDefs(n) ==
    IF n = 0 THEN <<>> ELSE VisitedDefs(n - 1) \o VisitedIn(n)

\* the record of a definition
RecordOf(e) ==
    [name |-> e.node.name, file |-> Basename(python_files[e.file].path),
     line |-> e.node.lineno, calls |-> OwnCalls(e.node)]

\* the callees of the relationships of one caller
CalleesOf(rel, k) ==
    LET r == SelectSeq(rel, LAMBDA x : x.caller = k)
    IN  [i \in DOMAIN r |-> r[i].callee]

\* the first occurrences of a sequence
RECURSIVE FirstOccurrences(_)
FirstOccurrences(q) ==
    IF q = <<>> THEN <<>>
    ELSE LET r == FirstOccurrences(SubSeq(q, 1, Len(q) - 1))
         IN  IF q[Len(q)] \in Range(r) THEN r ELSE Append(r, q[Len(q)])

\* the number of calls of the records before the i-th
RECURSIVE Offset(_, _)
Offset(d, i) == IF i <= 1 THEN 0 ELSE Offset(d, i - 1) + Len(d[i - 1].calls)

\* the number of open FunctionDef nodes: the returns of visit_FunctionDef
\* that are still to come
Depth(t) == Cardinality({i \in DOMAIN t : t[i].op = "leave"})

Contents1(i) == python_files[i].content

\* the report has just been assembled (no later step changes it)
Assembled == pc = "finally"

\* ------------------------------------------------------------ C1
NestedLaw(a, c) ==
    <<PlainDef("foo", <<S(CallName(a)), PlainDef("bar", <<S(CallName("y"))>>),
                        S(CallName(c))>>)>>

C1_NestedLawCase ==
    \A a \in {"x", "z"}, c \in {"x", "z"} :
        (Visited /\ CurFile.content = NestedLaw(a, c)) =>
            /\ Keys(functions) = {"foo", "bar"}
            /\ Get(functions, "foo").calls = <<a>>
            /\ Get(functions, "bar").calls = <<"y">>
            /\ c # a => \A i \in DOMAIN functions :
                            c \notin Range(functions[i].calls)

\* C1: nested-function law.  With outer = foo whose body is a call a(), a
\* nested definition bar that calls y(), then a call c(): foo.calls = [a],
\* bar.calls = [y] and c is in no function's calls.  In general every step
\* that leaves a FunctionDef node makes the active function absent, and a
\* step taken with no active function that enters no definition leaves every
\* record as it is.
C1_NestedFunctionLaw ==
    /\ []C1_NestedLawCase
    /\ [][(pc = "visit" /\ pc' = "visit" /\ Depth(todo') < Depth(todo))
              => current_function' = None]_vars
    /\ [][(pc = "visit" /\ pc' = "visit" /\ current_function = None
              /\ current_function' = None) => functions' = functions]_vars

C1_Witness ==
    /\ Visited /\ CurFile.content = NestedLaw("x", "z")
    /\ Get(functions, "foo").calls = <<"x">>
    /\ current_function = None

\* ------------------------------------------------------------ C2
\* the names that two or more of the definitions share
Shared(defs) ==
    {defs[i].node.name : i \in {j \in DOMAIN defs :
        \E l \in DOMAIN defs : l # j /\ defs[l].node.name = defs[j].node.name}}

\* the registry and the relationships hold, for each of the names, exactly
\* one record: that of the last of the definitions that has the name
ReflectsLast(defs, names) ==
    LET fs == call_graph.functions
    IN  \A k \in names :
            LET r == RecordOf(LastNamed(defs, k))
            IN  /\ Cardinality({j \in DOMAIN fs : fs[j].name = k}) = 1
                /\ Get(fs, k) = r
                /\ CalleesOf(call_graph.call_relationships, k) = r.calls

ExampleRun ==
    /\ Len(python_files) = 2
    /\ python_files[1].fault = "none" /\ python_files[2].fault = "none"
    /\ Contents1(1) = <<PlainDef("foo", <<S(CallName("bar"))>>)>>
    /\ Contents1(2) = <<PlainDef("bar", <<>>), PlainDef("foo", <<>>)>>

C3_CalleeResolutionAndOrder ==
    Visited =>
        LET defs == DefsOf(CurTree)
        IN  /\ \A i \in DOMAIN functions :
                   LET d == LastNamed(defs, functions[i].name).node
                   IN  /\ functions[i].calls = OwnCalls(d)
                       /\ (\A n \in Range(Preorder(d)) : ~IsCall(n))
                              => functions[i].calls = <<>>
            /\ (\E i \in DOMAIN defs :
                   defs[i].node = [PlainDef("a", <<S(CallName("b")), S(CallAttr),
                                                   S(CallLambda)>>)
                                      EXCEPT !.lineno = 1])
                   => Get(functions, "a").calls = <<"b", "d">>

C3_Witness ==
    /\ Visited
    /\ HasKey(functions, "a") /\ Get(functions, "a").calls = <<"b", "d">>

C3_WitnessNested ==
    /\ Visited
    /\ \E i \in DOMAIN functions : functions[i].calls = <<"x", "w", "z", "d">>

\* ------------------------------------------------------------ C4
RECURSIVE SumCalls(_)
SumCalls(d) == IF d = <<>> THEN 0 ELSE Len(Head(d).calls) + SumCalls(Tail(d))

\* C4: in every report total_functions is the number of keys of functions
\* and call_relationships has as many entries as the calls lists have calls.
C4_ReportCounts ==
    call_graph # Unset =>
        /\ call_graph.total_functions = Cardinality(Keys(call_graph.functions))
        /\ Len(call_graph.call_relationships) = SumCalls(call_graph.functions)

C4_Witness ==
    /\ call_graph # Unset /\ errors # <<>>
    /\ Len(call_graph.call_relationships) >= 2
    /\ Len(VisitedDefs(Len(python_files))) > call_graph.total_functions

\* ------------------------------------------------------------ C5
Failing(n) == {i \in 1..n : ~Analysed(i)}

C5_Isolated ==
    /\ pc = "loop" =>
        /\ Len(errors) = Cardinality(Failing(idx))
        /\ LET defs == AnalysedDefs(idx)
           IN  /\ Keys(all_functions) = Range(NamesOf(defs))
               /\ \A i \in DOMAIN all_functions :
                      \E j \in DOMAIN defs :
                          /\ all_functions[i].name = defs[j].node.name
                          /\ all_functions[i].line = defs[j].node.lineno
                          /\ all_functions[i].file =
                                 Basename(python_files[defs[j].file].path)
    /\ pc \in {"returned", "exit0"} =>
        /\ idx = Len(python_files)
        /\ Len(errors) = Cardinality(Failing(idx))
        /\ result = call_graph /\ result # Unset
        /\ result.functions = all_functions

\* C5: failure isolation per file.  A file whose reading, parsing or visiting
\* fails contributes nothing (no record of the registry comes from it), the
\* step that catches the failure leaves the merged records unchanged and moves
\* on to the next file, every file that can be analysed is merged, and the run
\* returns the report.
C5_FailureIsolation ==
    /\ []C5_Isolated
    /\ [][(errors' # errors) =>
              (all_functions' = all_functions /\ idx' = idx + 1 /\ pc' = "loop")]_vars

C5_Witness ==
    /\ pc = "exit0" /\ Len(python_files) = 3
    /\ Analysed(1) /\ ~Analysed(2) /\ Analysed(3)
    /\ "RecursionError" \in Range(errors)
    /\ "a" \in Keys(result.functions) /\ "foo" \in Keys(result.functions)

\* ------------------------------------------------------------ C6
\* C6 as stated: the keys of the mapping of a file visited to its end are the
\* names of all the function definitions of its tree, of whatever kind.
C6_CompletenessAsStated ==
    Visited =>
        Keys(functions) =
            {n.name : n \in {m \in Range(Preorder(CurTree)) : IsAnyDef(m)}}

\* ------------------------------------------------------------ C7
\* C7: assembly is the ordered flattening of the registry.  The keys of
\* functions are in the order of their first insertion; call_relationships is
\* the calls of the records, record after record and call after call, each
\* with the record's name and file and the callee verbatim; so every caller is
\* a key and caller_file is that key's file.
C7_OrderedFlattening ==
    Assembled =>
        LET fs == call_graph.functions
            rel == call_graph.call_relationships
        IN  /\ [i \in DOMAIN fs |-> fs[i].name] =
                   FirstOccurrences(NamesOf(AnalysedDefs(Len(python_files))))
            /\ Len(rel) = Offset(fs, Len(fs) + 1)
            /\ \A i \in DOMAIN fs : \A j \in DOMAIN fs[i].calls :
                   rel[Offset(fs, i) + j] =
                       [caller |-> fs[i].name, callee |-> fs[i].calls[j],
                        caller_file |-> fs[i].file]
            /\ \A r \in DOMAIN rel :
                   /\ HasKey(fs, rel[r].caller)
                   /\ rel[r].caller_file = Get(fs, rel[r].caller).file

C7_Witness ==
    /\ Assembled
    /\ Len(call_graph.functions) >= 2
    /\ Len(call_graph.functions[2].calls) >= 2
    /\ call_graph.functions[1].calls # <<>>
    /\ \E r \in DOMAIN call_graph.call_relationships :
           ~HasKey(call_graph.functions, call_graph.call_relationships[r].callee)
    /\ Len(VisitedDefs(Len(python_files))) > Len(call_graph.functions)

\* ------------------------------------------------------------ C8
\* C8 as stated: the calls of a definition (one that has no definition nested
\* in it and whose name no other definition of the file has) are the calls of
\* its body statements: none comes from its decorators, defaults or
\* annotations.
C8_BodyOnlyAsStated ==
    Visited =>
        LET defs == DefsOf(CurTree)
        IN  \A i \in DOMAIN defs :
                LET d == defs[i].node
                IN  (/\ \A j \in DOMAIN defs : defs[j].node.name = d.name => j = i
                     /\ \A n \in Range(Tail(Preorder(d))) : ~IsFunctionDef(n))
                    => Get(functions, d.name).calls = BodyCalls(d)

\* ------------------------------------------------------------ C9
C9_Cleanup ==
    /\ rmtree_calls <= 1
    /\ call_graph = Unset => rmtree_calls = 0
    /\ pc \in {"rmtree", "returned", "exit0"} => rmtree_calls = 1
    /\ pc \in {"returned", "exit0"} =>
           /\ result = call_graph /\ result # Unset
           /\ result.functions = all_functions
    /\ pc = "exit1" => call_graph = Unset /\ python_files = <<>>

\* C9: cleanup never changes the outcome.  After a successful clone rmtree is
\* called exactly once, after the report is assembled; whatever the removals
\* do (a path removed, removed after the permissions were cleared, or not
\* removed and logged), no step of the cleanup changes the report, the
\* report is what generate_call_graph returns, and main exits with status 1
\* only when the clone failed.
C9_CleanupKeepsReport ==
    /\ []C9_Cleanup
    /\ [][(pc \in {"finally", "rmtree", "return"})
              => (call_graph' = call_graph)]_vars

C9_Witness == pc = "exit0" /\ failed >= 2 /\ dir_exists /\ result = call_graph

\* ------------------------------------------------------------ C10
\* C10: traversal-state invariant.  During a visit the active function is
\* absent or a key of the analyzer's functions, so no append fails with a
\* KeyError; and it is absent whenever no FunctionDef node is open, as it is
\* when the visit of the file ends.
C10_ActiveFunctionInvariant ==
    /\ pc = "visit" =>
           /\ current_function = None \/ HasKey(functions, current_function)
           /\ Depth(todo) = 0 => current_function = None
    /\ "KeyError" \notin Range(errors)

C10_Witness ==
    /\ pc = "visit" /\ Depth(todo) = 2
    /\ current_function # None
    /\ Get(functions, current_function).calls # <<>>
====
